---- MODULE Spec2Model ----
(***************************************************************************)
(* Inventory assistant: the SQLite store of src/database.py and the        *)
(* Streamlit handlers of src/app.py that call it.                          *)
(*                                                                         *)
(* Quantities are REAL columns; they are modelled as integers (one unit    *)
(* is one step of the number inputs).  A nullable column holds NULL == {}  *)
(* or Some(v) == {v}.  Tables are sequences in rowid order, which is the   *)
(* order SQLite returns rows in when a query has no ORDER BY.              *)
(*                                                                         *)
(* Spec is one browser session on all pages, SpecStore the functions of    *)
(* database.py called with any arguments, SpecChat the assistant's page,   *)
(* SpecBulk the editable table with up to three rows, and SpecRace two     *)
(* sessions whose calls interleave at the statements of the store.         *)
(* SpecUse is a session that fills the inventory through the assistant and *)
(* uses products, SpecUpsert add_product called beside overwrites, and     *)
(* SpecVision analyze_with_openai of src/vision_utils.py applied to the    *)
(* replies of the model it calls.  Each behaviour is cut at `horizon`      *)
(* clock readings, set by its initial state.                               *)
(***************************************************************************)
EXTENDS Integers, Sequences, FiniteSets, TLC

VARIABLES
    users,                  \* table users
    inventory,              \* table inventory
    product_usage_history,  \* table product_usage_history
    inventory_seq,          \* sqlite_sequence of inventory (AUTOINCREMENT)
    history_seq,            \* sqlite_sequence of product_usage_history
    users_seq,              \* sqlite_sequence of users
    CATEGORIES,             \* the module-level list of app.py
    user_id,                \* st.session_state.user_id
    now,                    \* the clock read by datetime.now(pytz.UTC)
    flight,                 \* per browser session: the call it is inside
    horizon,                \* the clock reading at which the behaviour is cut
    last                    \* the last call: its arguments and what it returned

vars == <<users, inventory, product_usage_history, inventory_seq, history_seq,
          users_seq, CATEGORIES, user_id, now, flight, horizon, last>>

----------------------------------------------------------------------------
(* Bounds of the model *)

MaxTime == 2        \* clock readings in one behaviour of one session
MaxBulkTime == 6    \* the same, where a table of three rows is written back
MaxRaceTime == 3    \* the same, where two sessions share the store
MaxUseTime == 3     \* the same, where one product is added twice and used
MaxUpsertTime == 3  \* the same, where an item is merged into beside another

(* Inputs *)

NULL == {}
Some(v) == {v}
The(s) == CHOOSE v \in s : TRUE

Usernames == {"admin", "Admin", "user1", "guest"}
Passwords == {"admin123", "Admin123", "user123"}
ProductNames == {"Milk", "milk"}
CategoryInputs == {"Grocery", "Snacks"}
UnitInputs == {"L"}
OwnerIds == {1}
QuantityInputs == {-1, 1, 2}
UsedInputs == {1, 2}
QuantityTexts == {"1", "-1", "abc"}

\* str.lower() on the names the model uses
lower(s) == CASE s = "Milk" -> "milk" [] s = "Eggs" -> "eggs"
                 [] s = "Admin" -> "admin" [] OTHER -> s

\* float(text): the texts Python converts, and the value it gives
float_ok(s) == s \in {"1", "-1"}
float(s) == CASE s = "1" -> 1 [] s = "-1" -> -1 [] OTHER -> 0

\* PREDEFINED_USERS with the defaults of os.getenv
PREDEFINED_USERS ==
    <<[username |-> "admin", password |-> "admin123"],
      [username |-> "user1", password |-> "user123"],
      [username |-> "user2", password |-> "user123"]>>

InitialCategories ==
    <<"Fresh Produce", "Meat & Eggs", "Grocery", "Household Supplies",
      "Dairy & Alternatives", "Beverages", "Frozen Foods", "Bakery">>

----------------------------------------------------------------------------
(* The database as one value: what a connection reads and commits *)

Db == [users |-> users, inventory |-> inventory,
       product_usage_history |-> product_usage_history,
       inventory_seq |-> inventory_seq, history_seq |-> history_seq,
       users_seq |-> users_seq]

Range(s) == {s[i] : i \in DOMAIN s}

\* SQL comparison a <= b on nullable operands: NULL when either is NULL
SqlLe(a, b) == IF a = NULL \/ b = NULL THEN NULL ELSE Some(The(a) <= The(b))

\* a WHERE clause keeps the rows whose condition is true (not false, not NULL)
SqlTrue(v) == v = Some(TRUE)

----------------------------------------------------------------------------
(* src/database.py: each operator is one call on a committed database db   *)
(* and gives the database after the call together with what it returns.    *)
(* A fault is an exception raised by a statement of the call: the          *)
(* connection is closed without a commit, so nothing of the call persists.  *)
(* A call of one statement has one fault point (a Boolean); add_product and *)
(* delete_product, which write twice, have two (1 and 2; 0 is no fault).    *)

\* init_db: the three tables, empty, and the predefined users
init_db ==
    [users |-> [i \in 1..Len(PREDEFINED_USERS) |->
                   [id |-> i, username |-> PREDEFINED_USERS[i].username,
                    password |-> PREDEFINED_USERS[i].password]],
     inventory |-> <<>>,
     product_usage_history |-> <<>>,
     inventory_seq |-> 0,
     history_seq |-> 0,
     users_seq |-> Len(PREDEFINED_USERS)]

add_user(db, username, password) ==
    IF \E r \in Range(db.users) : r.username = username
    THEN [db |-> db, result |-> "False"]
    ELSE [db |-> [db EXCEPT !.users = Append(@, [id |-> db.users_seq + 1,
                                                  username |-> username,
                                                  password |-> password]),
                            !.users_seq = @ + 1],
          result |-> "True"]

\* the user id, or NULL for None
authenticate_user_nocase(db, username, password) ==
    LET known == {i \in DOMAIN PREDEFINED_USERS :
                     /\ lower(PREDEFINED_USERS[i].username) = lower(username)
                     /\ PREDEFINED_USERS[i].password = password}
        rows == SelectSeq(db.users, LAMBDA r : lower(r.username) = lower(username))
    IN IF known # {} /\ Len(rows) > 0 THEN Some(Head(rows).id) ELSE NULL
authenticate_user(db, username, password) ==
    LET known == {i \in DOMAIN PREDEFINED_USERS :
                     /\ PREDEFINED_USERS[i].username = username
                     /\ PREDEFINED_USERS[i].password = password}
        rows == SelectSeq(db.users, LAMBDA r : r.username = username)
    IN IF known # {} /\ Len(rows) > 0 THEN Some(Head(rows).id) ELSE NULL

UsageRow(db, u, product_id, quantity, t) ==
    [id |-> db.history_seq + 1, user_id |-> u, product_id |-> product_id,
     quantity_used |-> quantity, usage_date |-> t, operation_type |-> "add"]

\* SELECT id, quantity FROM inventory WHERE user_id = ? AND product_name = ?
\* AND category = ?, then fetchone(): NULL, or the first matching row
select_existing(db, u, name, category) ==
    LET rows == SelectSeq(db.inventory, LAMBDA r :
                    r.user_id = u /\ r.product_name = name /\ r.category = category)
    IN IF Len(rows) > 0
       THEN Some([id |-> Head(rows).id, quantity |-> Head(rows).quantity])
       ELSE NULL

\* the UPDATE or the INSERT of inventory; the new quantity of the UPDATE is
\* computed from the row the SELECT returned
write_item_overwrite(db, existing, t, u, name, category, quantity, unit, image_path, min_stock_level) ==
    IF existing # NULL
    THEN [db EXCEPT !.inventory = [i \in DOMAIN db.inventory |->
             IF db.inventory[i].id = The(existing).id
             THEN [db.inventory[i] EXCEPT
                      !.quantity = The(existing).quantity + quantity,
                      !.date_added = t, !.unit = unit,
                      !.image_path = image_path,
                      !.min_stock_level = min_stock_level]
             ELSE db.inventory[i]]]
    ELSE [db EXCEPT
             !.inventory = Append(@,
                 [id |-> db.inventory_seq + 1, user_id |-> u,
                  product_name |-> name, category |-> category,
                  quantity |-> quantity, unit |-> unit, date_added |-> t,
                  last_used |-> NULL, image_path |-> image_path,
                  min_stock_level |-> min_stock_level]),
             !.inventory_seq = @ + 1]
write_item_sql_increment(db, existing, t, u, name, category, quantity, unit, image_path, min_stock_level) ==
    IF existing # NULL
    THEN [db EXCEPT !.inventory = [i \in DOMAIN db.inventory |->
             IF db.inventory[i].id = The(existing).id
             THEN [db.inventory[i] EXCEPT !.quantity = @ + quantity,
                                          !.date_added = t]
             ELSE db.inventory[i]]]
    ELSE [db EXCEPT
             !.inventory = Append(@,
                 [id |-> db.inventory_seq + 1, user_id |-> u,
                  product_name |-> name, category |-> category,
                  quantity |-> quantity, unit |-> unit, date_added |-> t,
                  last_used |-> NULL, image_path |-> image_path,
                  min_stock_level |-> min_stock_level]),
             !.inventory_seq = @ + 1]
write_item(db, existing, t, u, name, category, quantity, unit, image_path, min_stock_level) ==
    IF existing # NULL
    THEN \* new_quantity = existing_product['quantity'] + quantity;
         \* UPDATE inventory SET quantity = ?, date_added = ? WHERE id = ?
         [db EXCEPT !.inventory = [i \in DOMAIN db.inventory |->
             IF db.inventory[i].id = The(existing).id
             THEN [db.inventory[i] EXCEPT
                      !.quantity = The(existing).quantity + quantity,
                      !.date_added = t]
             ELSE db.inventory[i]]]
    ELSE \* INSERT INTO inventory
         [db EXCEPT
             !.inventory = Append(@,
                 [id |-> db.inventory_seq + 1, user_id |-> u,
                  product_name |-> name, category |-> category,
                  quantity |-> quantity, unit |-> unit, date_added |-> t,
                  last_used |-> NULL, image_path |-> image_path,
                  min_stock_level |-> min_stock_level]),
             !.inventory_seq = @ + 1]

\* INSERT INTO product_usage_history ... 'add'
write_usage(db, u, product_id, quantity, t) ==
    [db EXCEPT !.product_usage_history =
                   Append(@, UsageRow(db, u, product_id, quantity, t)),
               !.history_seq = @ + 1]

\* The statements of add_product after its SELECT returned `existing`, up
\* to conn.commit().  fault: 0 none; 1 the call raises before its first
\* write; 2 it raises after the write of the item and before the commit.
\* finally: conn.close() discards what was written and not committed.
add_product_statements_autocommit(db, existing, t, u, name, category, quantity, unit, image_path, min_stock_level, fault) ==
    LET item_written == write_item(db, existing, t, u, name, category, quantity,
                                   unit, image_path, min_stock_level)
        product_id == IF existing # NULL THEN The(existing).id
                      ELSE item_written.inventory_seq
        event_written == write_usage(item_written, u, product_id, quantity, t)
    IN IF fault = 0 THEN [db |-> event_written, result |-> "True"]
       ELSE IF fault = 1 THEN [db |-> db, result |-> "raise"]
       ELSE [db |-> item_written, result |-> "raise"]
add_product_statements_stale_id(db, existing, t, u, name, category, quantity, unit, image_path, min_stock_level, fault) ==
    LET item_written == write_item(db, existing, t, u, name, category, quantity,
                                   unit, image_path, min_stock_level)
        product_id == IF existing # NULL THEN The(existing).id
                      ELSE db.inventory_seq
        event_written == write_usage(item_written, u, product_id, quantity, t)
    IN IF fault = 0 THEN [db |-> event_written, result |-> "True"]
       ELSE [db |-> db, result |-> "raise"]
add_product_statements(db, existing, t, u, name, category, quantity, unit, image_path, min_stock_level, fault) ==
    LET item_written == write_item(db, existing, t, u, name, category, quantity,
                                   unit, image_path, min_stock_level)
        \* existing_product['id'], or cursor.lastrowid after the INSERT
        product_id == IF existing # NULL THEN The(existing).id
                      ELSE item_written.inventory_seq
        event_written == write_usage(item_written, u, product_id, quantity, t)
    IN IF fault = 0 THEN [db |-> event_written, result |-> "True"]
       ELSE [db |-> db, result |-> "raise"]

\* one call of add_product, alone on the database
add_product(db, t, u, name, category, quantity, unit, image_path, min_stock_level, fault) ==
    add_product_statements(db, select_existing(db, u, name, category), t, u, name,
                           category, quantity, unit, image_path, min_stock_level,
                           fault)

get_user_inventory(db, u) == SelectSeq(db.inventory, LAMBDA r : r.user_id = u)

update_inventory_quantity_checked(db, t, u, product_name, quantity, min_stock_level, fault) ==
    IF fault \/ quantity < 0 THEN [db |-> db, result |-> "False"]
    ELSE [db |-> [db EXCEPT !.inventory = [i \in DOMAIN db.inventory |->
                     IF /\ db.inventory[i].user_id = u
                        /\ db.inventory[i].product_name = product_name
                     THEN [db.inventory[i] EXCEPT
                              !.quantity = quantity,
                              !.last_used = Some(t),
                              !.min_stock_level =
                                  IF min_stock_level # NULL THEN min_stock_level ELSE @]
                     ELSE db.inventory[i]]],
          result |-> "True"]
update_inventory_quantity_logged(db, t, u, product_name, quantity, min_stock_level, fault) ==
    IF fault THEN [db |-> db, result |-> "False"]
    ELSE [db |-> [db EXCEPT
                     !.inventory = [i \in DOMAIN db.inventory |->
                         IF /\ db.inventory[i].user_id = u
                            /\ db.inventory[i].product_name = product_name
                         THEN [db.inventory[i] EXCEPT
                                  !.quantity = quantity,
                                  !.last_used = Some(t),
                                  !.min_stock_level =
                                      IF min_stock_level # NULL THEN min_stock_level ELSE @]
                         ELSE db.inventory[i]],
                     !.product_usage_history = Append(@,
                         [UsageRow(db, u, 0, quantity, t) EXCEPT
                             !.operation_type = "remove"]),
                     !.history_seq = @ + 1],
          result |-> "True"]
update_inventory_quantity(db, t, u, product_name, quantity, min_stock_level, fault) ==
    IF fault THEN \* except Exception: return False
         [db |-> db, result |-> "False"]
    ELSE [db |-> [db EXCEPT !.inventory = [i \in DOMAIN db.inventory |->
                     IF /\ db.inventory[i].user_id = u
                        /\ db.inventory[i].product_name = product_name
                     THEN [db.inventory[i] EXCEPT
                              !.quantity = quantity,
                              !.last_used = Some(t),
                              !.min_stock_level =
                                  IF min_stock_level # NULL THEN min_stock_level ELSE @]
                     ELSE db.inventory[i]]],
          result |-> "True"]

get_low_stock_items_coalesce(db, u) ==
    SelectSeq(db.inventory, LAMBDA r :
        /\ r.user_id = u
        /\ r.quantity <= (IF r.min_stock_level = NULL THEN 0 ELSE The(r.min_stock_level)))
get_low_stock_items(db, u) ==
    SelectSeq(db.inventory, LAMBDA r :
        r.user_id = u /\ SqlTrue(SqlLe(Some(r.quantity), r.min_stock_level)))

\* fault: 0 none; 1 the call raises before its first DELETE; 2 it raises
\* after DELETE FROM inventory and before the commit, which happens only
\* when a row was found
delete_product_one_row(db, u, product_name, fault) ==
    LET found == SelectSeq(db.inventory, LAMBDA r :
                     r.user_id = u /\ r.product_name = product_name)
    IN IF fault = 1 \/ (fault = 2 /\ Len(found) > 0)
       THEN [db |-> db, result |-> "raise"]
       ELSE IF Len(found) > 0
       THEN [db |-> [db EXCEPT
                 !.inventory = SelectSeq(@, LAMBDA r : r.id # Head(found).id),
                 !.product_usage_history = SelectSeq(@, LAMBDA h :
                     ~(h.user_id = u /\ h.product_id = Head(found).id))],
             result |-> "True"]
       ELSE [db |-> db, result |-> "False"]
delete_product_always_true(db, u, product_name, fault) ==
    LET found == SelectSeq(db.inventory, LAMBDA r :
                     r.user_id = u /\ r.product_name = product_name)
    IN IF fault = 1 \/ (fault = 2 /\ Len(found) > 0)
       THEN [db |-> db, result |-> "raise"]
       ELSE [db |-> [db EXCEPT
                 !.inventory = SelectSeq(@, LAMBDA r :
                     ~(r.user_id = u /\ r.product_name = product_name)),
                 !.product_usage_history = SelectSeq(@, LAMBDA h :
                     ~(h.user_id = u /\ Len(found) > 0 /\ h.product_id = Head(found).id))],
             result |-> "True"]
delete_product_any_owner(db, u, product_name, fault) ==
    LET found == SelectSeq(db.inventory, LAMBDA r :
                     r.user_id = u /\ r.product_name = product_name)
    IN IF fault = 1 \/ (fault = 2 /\ Len(found) > 0)
       THEN [db |-> db, result |-> "raise"]
       ELSE IF Len(found) > 0
       THEN [db |-> [db EXCEPT
                 !.inventory = SelectSeq(@, LAMBDA r :
                     ~(r.product_name = product_name)),
                 !.product_usage_history = SelectSeq(@, LAMBDA h :
                     ~(h.user_id = u /\ h.product_id = Head(found).id))],
             result |-> "True"]
       ELSE [db |-> db, result |-> "False"]
delete_product(db, u, product_name, fault) ==
    LET found == SelectSeq(db.inventory, LAMBDA r :
                     r.user_id = u /\ r.product_name = product_name)
    IN IF fault = 1 \/ (fault = 2 /\ Len(found) > 0)
       THEN \* finally: conn.close() without a commit
            [db |-> db, result |-> "raise"]
       ELSE IF Len(found) > 0
       THEN \* product = cursor.fetchone(): the first matching row only
            [db |-> [db EXCEPT
                 !.inventory = SelectSeq(@, LAMBDA r :
                     ~(r.user_id = u /\ r.product_name = product_name)),
                 !.product_usage_history = SelectSeq(@, LAMBDA h :
                     ~(h.user_id = u /\ h.product_id = Head(found).id))],
             result |-> "True"]
       ELSE [db |-> db, result |-> "False"]

\* ORDER BY usage_date DESC: insertion sort of the joined rows, newest first.
\* Rows of equal usage_date keep rowid order.
RECURSIVE SortDesc(_)
InsertDesc(h, sorted) ==
    LET before == SelectSeq(sorted, LAMBDA x : x.usage_date >= h.usage_date)
        after == SelectSeq(sorted, LAMBDA x : x.usage_date < h.usage_date)
    IN before \o <<h>> \o after
SortDesc(s) == IF s = <<>> THEN <<>>
               ELSE InsertDesc(s[Len(s)], SortDesc(SubSeq(s, 1, Len(s) - 1)))

Limit(s, n) == IF Len(s) <= n THEN s ELSE SubSeq(s, 1, n)

\* product_name = NULL stands for the default None (and for "")
get_product_usage_history(db, u, product_name, limit) ==
    LET joined == SelectSeq(db.product_usage_history, LAMBDA h :
            /\ h.user_id = u
            /\ \E i \in Range(db.inventory) :
                  /\ h.product_id = i.id
                  /\ (product_name # NULL => i.product_name = The(product_name)))
    IN Limit(SortDesc(joined), limit)

DEFAULT_LIMIT == 5

----------------------------------------------------------------------------
(* src/app.py: the handlers, as functions of the database they read        *)

\* next(item for item in inventory if item['product_name'] == product_name)
current_product(db, u, product_name) ==
    Head(SelectSeq(get_user_inventory(db, u), LAMBDA r : r.product_name = product_name))

\* the "Update Inventory" button of show_use_product_page
use_product_unchecked(db, t, u, product_name, quantity_used, fault) ==
    LET new_quantity == current_product(db, u, product_name).quantity - quantity_used
    IN update_inventory_quantity(db, t, u, product_name, new_quantity, NULL, fault)
use_product(db, t, u, product_name, quantity_used, fault) ==
    LET new_quantity == current_product(db, u, product_name).quantity - quantity_used
    IN IF new_quantity < 0
       THEN [db |-> db, result |-> "rejected"]
       ELSE update_inventory_quantity(db, t, u, product_name, new_quantity, NULL, fault)

\* the same button in a session whose script run read the inventory before
\* another session wrote: call.read is the row of the product as it was read
use_product_after_read_fresh(db, t, call) ==
    use_product(db, t, call.user_id, call.product_name, call.quantity, FALSE)
use_product_after_read(db, t, call) ==
    LET new_quantity == The(call.read).quantity - call.quantity
    IN IF new_quantity < 0
       THEN [db |-> db, result |-> "rejected"]
       ELSE update_inventory_quantity(db, t, call.user_id, call.product_name,
                                      new_quantity, NULL, FALSE)

\* matching_products of add_product_ui: the case-insensitive pre-check
matching_products(db, u, product_name) ==
    SelectSeq(get_user_inventory(db, u), LAMBDA p :
        lower(p.product_name) = lower(product_name))

\* all_categories of add_product_ui
all_categories(db, cats, u) ==
    Range(cats) \cup {p.category : p \in Range(get_user_inventory(db, u))}

AppendIfMissing(cats, category) ==
    IF category \in Range(cats) THEN cats ELSE Append(cats, category)

\* the "Add/Update Product" button of add_product_ui.  current_quantity and
\* quantity_change are the two number inputs shown when the name matches,
\* quantity the one shown when it does not.
add_product_ui(db, cats, t, u, product_name, category, unit, current_quantity, quantity_change, quantity, image_path, fault) ==
    IF Len(matching_products(db, u, product_name)) > 0
    THEN LET new_quantity == current_quantity + quantity_change
             r == update_inventory_quantity(db, t, u, product_name, new_quantity, NULL,
                                        fault # 0)
         IN [db |-> r.db, result |-> r.result,
             CATEGORIES |-> AppendIfMissing(cats, category)]
    ELSE LET r == add_product(db, t, u, product_name, category, quantity, unit,
                              image_path, Some(0), fault)
         IN [db |-> r.db, result |-> r.result,
             CATEGORIES |-> IF r.result = "raise" THEN cats
                            ELSE AppendIfMissing(cats, category)]

\* An assistant response, as the four re.search results: NULL when the
\* labelled line is missing, else Some(text of the line)
ResponseComplete(response) ==
    /\ response.product_name # NULL
    /\ response.category # NULL
    /\ response.unit # NULL
    /\ response.quantity # NULL

\* the response processing of display_chatbot; every exception is caught
display_chatbot_partial(db, cats, t, u, response, fault) ==
    IF ~ResponseComplete(response)
    THEN [db |-> db, result |-> "none",
          CATEGORIES |-> IF response.category = NULL THEN cats
                         ELSE AppendIfMissing(cats, The(response.category))]
    ELSE LET category == The(response.category)
             cats2 == AppendIfMissing(cats, category)
         IN IF ~float_ok(The(response.quantity))
            THEN [db |-> db, result |-> "error", CATEGORIES |-> cats2]
            ELSE LET r == add_product(db, t, u, The(response.product_name), category,
                                      float(The(response.quantity)),
                                      The(response.unit), NULL, Some(0), fault)
                 IN [db |-> r.db,
                     result |-> IF r.result = "raise" THEN "error" ELSE r.result,
                     CATEGORIES |-> cats2]
display_chatbot(db, cats, t, u, response, fault) ==
    IF ~ResponseComplete(response)
    THEN [db |-> db, result |-> "none", CATEGORIES |-> cats]
    ELSE LET category == The(response.category)
             cats2 == AppendIfMissing(cats, category)
         IN IF ~float_ok(The(response.quantity))
            THEN [db |-> db, result |-> "error", CATEGORIES |-> cats2]
            ELSE LET r == add_product(db, t, u, The(response.product_name), category,
                                      float(The(response.quantity)),
                                      The(response.unit), NULL, Some(0), fault)
                 IN [db |-> r.db,
                     result |-> IF r.result = "raise" THEN "error" ELSE r.result,
                     CATEGORIES |-> cats2]

\* the rows of the editable table: the owner's inventory after the filters
table_rows(db, u, category_filter, low_stock_filter) ==
    SelectSeq(get_user_inventory(db, u), LAMBDA r :
        /\ (category_filter # "All" => r.category = category_filter)
        /\ (low_stock_filter =>
               SqlTrue(SqlLe(Some(r.quantity), r.min_stock_level))))

\* the "Update Inventory" button of display_inventory_table: one
\* update_inventory_quantity per row of edited_df, each with its own clock
\* reading; the call for row faultRow (0: none) fails
RECURSIVE bulk_edit_abort(_, _, _, _, _, _)
bulk_edit_abort(db, t, u, rows, k, faultRow) ==
    IF k > Len(rows) \/ k = faultRow THEN db
    ELSE bulk_edit_abort(update_inventory_quantity(db, t + k - 1, u,
                                                   rows[k].product_name,
                                                   rows[k].quantity,
                                                   rows[k].min_stock_level,
                                                   FALSE).db,
                         t, u, rows, k + 1, faultRow)
RECURSIVE bulk_edit(_, _, _, _, _, _)
bulk_edit(db, t, u, rows, k, faultRow) ==
    IF k > Len(rows) THEN db
    ELSE bulk_edit(update_inventory_quantity(db, t + k - 1, u, rows[k].product_name,
                                             rows[k].quantity, rows[k].min_stock_level,
                                             k = faultRow).db,
                   t, u, rows, k + 1, faultRow)

(* src/vision_utils.py: analyze_with_openai.  A value of the parsed JSON   *)
(* is its Python type with its repr; a dict is a function on the keys it   *)
(* has.                                                                    *)

JsonValue(type, repr) == [type |-> type, repr |-> repr]
Str(s) == JsonValue("str", s)
PyInt(s) == JsonValue("int", s)
PyFloat(s) == JsonValue("float", s)
PyNone == JsonValue("NoneType", "None")
PyTrue == JsonValue("bool", "True")
PyList == JsonValue("list", "[]")

\* an integer literal of more than 308 digits
HugeInt == PyInt("10**400")

\* float(v): the float, or the exception raised
python_float(v) ==
    CASE v.type = "float" -> [raised |-> "", value |-> v]
      [] v.type = "int" ->
            CASE v.repr = "2" -> [raised |-> "", value |-> PyFloat("2.0")]
              [] v.repr = "-1" -> [raised |-> "", value |-> PyFloat("-1.0")]
              [] OTHER -> [raised |-> "OverflowError", value |-> v]
      [] v.type = "bool" -> [raised |-> "", value |-> PyFloat("1.0")]
      [] v.type = "str" ->
            CASE v.repr = "1" -> [raised |-> "", value |-> PyFloat("1.0")]
              [] v.repr = "-1" -> [raised |-> "", value |-> PyFloat("-1.0")]
              [] v.repr = "nan" -> [raised |-> "", value |-> PyFloat("nan")]
              [] OTHER -> [raised |-> "ValueError", value |-> v]
      [] OTHER -> [raised |-> "TypeError", value |-> v]

valid_units == <<"kg", "g", "L", "ml", "pcs", "box", "pack">>

\* the dict returned when the reply is not JSON
unparsed_suggestion(vision_results) ==
    [k \in {"product_name", "category", "unit", "quantity", "notes"} |->
        CASE k = "product_name" ->
                 IF Len(vision_results.labels) > 0
                 THEN Str(vision_results.labels[1]) ELSE Str("Unknown Product")
          [] k = "category" -> Str("Grocery")
          [] k = "unit" -> Str("pcs")
          [] k = "quantity" -> PyFloat("1.0")
          [] OTHER -> Str("Could not parse detailed analysis")]

\* reply: NULL when openai.ChatCompletion.create raised, else the content
\* of the message, whose field parsed is NULL when json.loads raises
\* JSONDecodeError and else the value json.loads returns.  The result is
\* NULL (None) or the dict returned.
analyze_with_openai_unvalidated(vision_results, reply) ==
    IF reply = NULL THEN NULL
    ELSE IF The(reply).parsed = NULL THEN Some(unparsed_suggestion(vision_results))
    ELSE LET result == The(The(reply).parsed)
         IN IF result.type # "dict" \/ {"unit", "quantity"} \ DOMAIN result.items # {}
            THEN NULL
            ELSE LET q == python_float(result.items["quantity"])
                 IN IF q.raised \in {"ValueError", "TypeError"}
                    THEN Some([result.items EXCEPT !["quantity"] = PyFloat("1.0")])
                    ELSE IF q.raised # "" THEN NULL
                    ELSE Some([result.items EXCEPT !["quantity"] = q.value])
analyze_with_openai(vision_results, reply) ==
    IF reply = NULL
    THEN NULL   \* except Exception: return None
    ELSE IF The(reply).parsed = NULL
    THEN Some(unparsed_suggestion(vision_results))   \* except json.JSONDecodeError
    ELSE LET result == The(The(reply).parsed)
         IN IF result.type # "dict" \/ "unit" \notin DOMAIN result.items
            THEN NULL   \* result['unit']: TypeError or KeyError
            ELSE LET validated ==
                         [result.items EXCEPT !["unit"] =
                             IF @.type = "str" /\ @.repr \in Range(valid_units)
                             THEN @ ELSE Str("pcs")]
                 IN IF "quantity" \notin DOMAIN validated
                    THEN NULL   \* result['quantity']: KeyError
                    ELSE LET q == python_float(validated["quantity"])
                         IN IF q.raised \in {"ValueError", "TypeError"}
                            THEN Some([validated EXCEPT !["quantity"] = PyFloat("1.0")])
                            ELSE IF q.raised # ""
                            THEN NULL
                            ELSE Some([validated EXCEPT !["quantity"] = q.value])

----------------------------------------------------------------------------
(* State machine *)

Commit(db) ==
    /\ users' = db.users
    /\ inventory' = db.inventory
    /\ product_usage_history' = db.product_usage_history
    /\ inventory_seq' = db.inventory_seq
    /\ history_seq' = db.history_seq
    /\ users_seq' = db.users_seq

\* the item of a merge key, as a set of at most one row in a consistent store
ItemsOf(db, u, name, category) ==
    {r \in Range(db.inventory) :
        r.user_id = u /\ r.product_name = name /\ r.category = category}

AddEventsOf(db, ids) ==
    {h \in Range(db.product_usage_history) :
        h.product_id \in ids /\ h.operation_type = "add"}

QuantityOf(db, u, name, category) ==
    IF ItemsOf(db, u, name, category) = {} THEN 0
    ELSE (CHOOSE r \in ItemsOf(db, u, name, category) : TRUE).quantity

\* `last` observes the calls: the arguments of the last one, what it
\* returned, and the quantity and number of 'add' events its merge key had.
\* fault_at is the fault point of the call (0: none; a call with one
\* statement has the single point 1); arg is what a handler was given
\* besides: the assistant's response, or the edit of the table.
NoCall ==
    [op |-> "init_db", user_id |-> 0, product_name |-> "", category |-> "",
     quantity |-> 0, new_quantity |-> 0, min_stock_level |-> NULL,
     fault |-> FALSE, fault_at |-> 0, result |-> "", pre_quantity |-> 0,
     pre_adds |-> 0, arg |-> NULL]

Call(op, u, name, category, quantity, new_quantity, msl, fault, result) ==
    [NoCall EXCEPT !.op = op, !.user_id = u, !.product_name = name,
                   !.category = category, !.quantity = quantity,
                   !.new_quantity = new_quantity, !.min_stock_level = msl,
                   !.fault = fault # 0, !.fault_at = fault, !.result = result,
                   !.pre_quantity = QuantityOf(Db, u, name, category),
                   !.pre_adds = Cardinality(AddEventsOf(Db,
                       {r.id : r \in ItemsOf(Db, u, name, category)}))]

\* a session that is inside no call
Idle ==
    [pc |-> "idle", op |-> "", user_id |-> 0, product_name |-> "", category |-> "",
     quantity |-> 0, t |-> 0, read |-> NULL, event |-> 0, result |-> ""]

Sessions == {1, 2}

InitStore ==
    /\ users = init_db.users
    /\ inventory = init_db.inventory
    /\ product_usage_history = init_db.product_usage_history
    /\ inventory_seq = init_db.inventory_seq
    /\ history_seq = init_db.history_seq
    /\ users_seq = init_db.users_seq
    /\ CATEGORIES = InitialCategories
    /\ user_id = NULL
    /\ now = 0
    /\ flight = [s \in Sessions |-> Idle]
    /\ last = NoCall

Init == InitStore /\ horizon = MaxTime

\* the "Login" button
show_login_page(username, password) ==
    LET id == authenticate_user(Db, username, password)
    IN /\ user_id = NULL
       /\ user_id' = id
       /\ last' = [NoCall EXCEPT !.op = "show_login_page",
                                 !.result = IF id = NULL THEN "invalid" ELSE "ok"]
       /\ UNCHANGED <<users, inventory, product_usage_history, inventory_seq,
                      history_seq, users_seq, CATEGORIES, now, flight, horizon>>

\* the "Logout" button of show_main_interface
show_main_interface_logout ==
    /\ user_id # NULL
    /\ user_id' = NULL
    /\ last' = [NoCall EXCEPT !.op = "logout"]
    /\ UNCHANGED <<users, inventory, product_usage_history, inventory_seq,
                   history_seq, users_seq, CATEGORIES, now, flight, horizon>>

show_use_product_page(product_name, quantity_used, fault) ==
    /\ user_id # NULL
    /\ \E r \in Range(get_user_inventory(Db, The(user_id))) :
           r.product_name = product_name
    /\ LET u == The(user_id)
           r == use_product(Db, now + 1, u, product_name, quantity_used, fault)
       IN /\ (r.result # "rejected" => now < horizon)
          /\ (r.result = "rejected" => ~fault)
          /\ Commit(r.db)
          /\ now' = IF r.result = "rejected" THEN now ELSE now + 1
          /\ last' = Call("show_use_product_page", u, product_name,
                          current_product(Db, u, product_name).category,
                          quantity_used,
                          current_product(Db, u, product_name).quantity - quantity_used,
                          NULL, IF fault THEN 1 ELSE 0, r.result)
    /\ UNCHANGED <<CATEGORIES, user_id, flight, horizon>>

\* number_input("Current Quantity", min_value=0.0, value=existing quantity)
\* cannot be drawn when the stored quantity is below its min_value, so the
\* form is submitted for a matching name only when that quantity is >= 0.
add_product_ui_submit(product_name, category, unit, current_quantity, quantity_change, quantity, uploaded, fault) ==
    /\ user_id # NULL
    /\ LET u == The(user_id)
           matching == matching_products(Db, u, product_name)
           reads == IF uploaded THEN 2 ELSE 1
           image_path == IF uploaded THEN Some(<<product_name, now + 1>>) ELSE NULL
           r == add_product_ui(Db, CATEGORIES, now + reads, u, product_name, category,
                               unit, current_quantity, quantity_change, quantity,
                               image_path, fault)
       IN /\ now + reads <= horizon
          /\ category \in all_categories(Db, CATEGORIES, u)
          /\ IF Len(matching) > 0
             THEN Head(matching).quantity >= 0
             ELSE TRUE
          /\ Commit(r.db)
          /\ CATEGORIES' = r.CATEGORIES
          /\ now' = now + reads
          /\ last' = Call("add_product_ui", u, product_name, category,
                          IF Len(matching) > 0 THEN quantity_change ELSE quantity,
                          IF Len(matching) > 0 THEN current_quantity + quantity_change
                                               ELSE quantity,
                          NULL, fault, r.result)
    /\ UNCHANGED <<user_id, flight, horizon>>


\* the responses the assistant gives in the model: complete ones, and one
\* with each labelled line, or all of them, missing
CompleteResponses ==
    [product_name : {Some(n) : n \in ProductNames},
     category : {Some(c) : c \in CategoryInputs},
     unit : {Some(x) : x \in UnitInputs},
     quantity : {Some("1")}]

BaseResponse ==
    [product_name |-> Some("Milk"), category |-> Some("Snacks"),
     unit |-> Some("L"), quantity |-> Some("1")]

IncompleteResponses ==
    {[BaseResponse EXCEPT !.product_name = NULL],
     [BaseResponse EXCEPT !.category = NULL],
     [BaseResponse EXCEPT !.unit = NULL],
     [BaseResponse EXCEPT !.quantity = NULL],
     [product_name |-> NULL, category |-> NULL, unit |-> NULL, quantity |-> NULL]}

ChatResponses ==
    CompleteResponses \cup IncompleteResponses
    \cup {[BaseResponse EXCEPT !.quantity = Some(q)] : q \in QuantityTexts}

\* the responses in a session that also uses the other pages: of the
\* incomplete ones, the one without any labelled line
PageResponses ==
    {r \in ChatResponses :
        ResponseComplete(r) \/ (r.product_name = NULL /\ r.quantity = NULL)}

display_chatbot_submit(response, fault) ==
    /\ user_id # NULL
    /\ LET u == The(user_id)
           r == display_chatbot(Db, CATEGORIES, now + 1, u, response, fault)
           calls == ResponseComplete(response) /\ float_ok(The(response.quantity))
       IN /\ (calls => now < horizon)
          /\ (~calls => fault = 0)
          /\ Commit(r.db)
          /\ CATEGORIES' = r.CATEGORIES
          /\ now' = IF calls THEN now + 1 ELSE now
          /\ last' = IF calls
                     THEN [Call("display_chatbot", u, The(response.product_name),
                               The(response.category), float(The(response.quantity)),
                               float(The(response.quantity)), Some(0), fault, r.result)
                          EXCEPT !.arg = response]
                     ELSE [NoCall EXCEPT !.op = "display_chatbot", !.user_id = u,
                                         !.result = r.result, !.arg = response]
    /\ UNCHANGED <<user_id, flight, horizon>>

\* The table is submitted with row k (0: none) edited to the given quantity
\* and minimum stock level; every row of the table is written back.  A row
\* whose min_stock_level is NULL is written back with NaN, which SQLite
\* stores as NULL: the same row as when the argument is None.
display_inventory_table_update(category_filter, low_stock_filter, k, quantity, min_stock_level, faultRow) ==
    /\ user_id # NULL
    /\ LET u == The(user_id)
           df == table_rows(Db, u, category_filter, low_stock_filter)
           edited_df == [i \in DOMAIN df |->
                            IF i = k THEN [df[i] EXCEPT !.quantity = quantity,
                                                        !.min_stock_level = min_stock_level]
                            ELSE df[i]]
       IN /\ Len(get_user_inventory(Db, u)) > 0
          /\ k \in 0..Len(df)
          /\ faultRow \in 0..Len(df)
          /\ now + Len(df) <= horizon
          /\ Commit(bulk_edit(Db, now + 1, u, edited_df, 1, faultRow))
          /\ now' = now + Len(df)
          /\ last' = [NoCall EXCEPT
                          !.op = "display_inventory_table", !.user_id = u,
                          !.fault = faultRow # 0, !.fault_at = faultRow,
                          !.result = "success",
                          !.arg = [category_filter |-> category_filter,
                                   low_stock_filter |-> low_stock_filter,
                                   k |-> k, quantity |-> quantity,
                                   min_stock_level |-> min_stock_level]]
    /\ UNCHANGED <<CATEGORIES, user_id, flight, horizon>>

\* the "Delete Product" button of display_inventory_table
display_inventory_table_delete(category_filter, low_stock_filter, product_to_delete, fault) ==
    /\ user_id # NULL
    /\ LET u == The(user_id)
           df == table_rows(Db, u, category_filter, low_stock_filter)
           r == delete_product(Db, u, product_to_delete, fault)
       IN /\ \E row \in Range(df) : row.product_name = product_to_delete
          /\ Commit(r.db)
          /\ last' = Call("display_inventory_table_delete", u, product_to_delete, "",
                          0, 0, NULL, fault, r.result)
    /\ UNCHANGED <<CATEGORIES, user_id, now, flight, horizon>>

(* The functions of src/database.py called directly *)

call_add_product(u, name, category, quantity, unit, image_path, min_stock_level, fault) ==
    /\ now < horizon
    /\ LET r == add_product(Db, now + 1, u, name, category, quantity, unit,
                            image_path, min_stock_level, fault)
       IN /\ Commit(r.db)
          /\ last' = [Call("add_product", u, name, category, quantity, quantity,
                           min_stock_level, fault, r.result)
                      EXCEPT !.arg = [unit |-> unit, image_path |-> image_path]]
    /\ now' = now + 1
    /\ UNCHANGED <<CATEGORIES, user_id, flight, horizon>>

call_update_inventory_quantity(u, product_name, quantity, min_stock_level, fault) ==
    /\ now < horizon
    /\ LET r == update_inventory_quantity(Db, now + 1, u, product_name, quantity,
                                          min_stock_level, fault)
       IN /\ Commit(r.db)
          /\ last' = Call("update_inventory_quantity", u, product_name, "", quantity,
                          quantity, min_stock_level, IF fault THEN 1 ELSE 0, r.result)
    /\ now' = now + 1
    /\ UNCHANGED <<CATEGORIES, user_id, flight, horizon>>

call_delete_product(u, product_name, fault) ==
    \* the second fault point lies after a DELETE that runs when a row is found
    /\ fault = 2 => \E r \in Range(inventory) :
                        r.user_id = u /\ r.product_name = product_name
    /\ LET r == delete_product(Db, u, product_name, fault)
       IN /\ Commit(r.db)
          /\ last' = Call("delete_product", u, product_name, "", 0, 0, NULL,
                          fault, r.result)
    /\ UNCHANGED <<CATEGORIES, user_id, now, flight, horizon>>

call_add_user(username, password) ==
    /\ LET r == add_user(Db, username, password)
       IN /\ Commit(r.db)
          /\ last' = [NoCall EXCEPT !.op = "add_user", !.result = r.result]
    /\ UNCHANGED <<CATEGORIES, user_id, now, flight, horizon>>

(* Two browser sessions on one store.  Every call opens its own connection; *)
(* SQLite runs one statement, and one transaction, at a time, and the       *)
(* SELECT of add_product runs before the transaction of its writes begins,  *)
(* as the reading of the inventory by a script run runs before the          *)
(* update_inventory_quantity its button calls.  Between the two steps of a  *)
(* session the other session may take any of its own.                       *)

\* add_product up to its fetchone(): the clock and the existing row are read
session_add_product_select(s, u, name, category, quantity) ==
    /\ flight[s].pc \in {"idle", "done"}
    /\ now < horizon
    /\ now' = now + 1
    /\ flight' = [flight EXCEPT ![s] =
                     [Idle EXCEPT !.pc = "selected", !.op = "add_product",
                                  !.user_id = u, !.product_name = name,
                                  !.category = category, !.quantity = quantity,
                                  !.t = now + 1,
                                  !.read = select_existing(Db, u, name, category)]]
    /\ UNCHANGED <<users, inventory, product_usage_history, inventory_seq,
                   history_seq, users_seq, CATEGORIES, user_id, horizon, last>>

\* the rest of add_product: its writes and its commit
session_add_product_commit(s) ==
    /\ flight[s].pc = "selected"
    /\ LET c == flight[s]
           r == add_product_statements(Db, c.read, c.t, c.user_id, c.product_name,
                                       c.category, c.quantity, "L", NULL, Some(0), 0)
       IN /\ Commit(r.db)
          /\ flight' = [flight EXCEPT ![s].pc = "done", ![s].result = r.result,
                                      ![s].event = history_seq + 1]
          /\ last' = Call("add_product", c.user_id, c.product_name, c.category,
                          c.quantity, c.quantity, Some(0), 0, r.result)
    /\ UNCHANGED <<CATEGORIES, user_id, now, horizon>>

\* a script run of show_use_product_page reads the inventory; the product
\* and the quantity used are those of the form
session_use_product_read(s, u, product_name, quantity_used) ==
    /\ flight[s].pc \in {"idle", "done"}
    /\ \E r \in Range(get_user_inventory(Db, u)) : r.product_name = product_name
    /\ flight' = [flight EXCEPT ![s] =
                     [Idle EXCEPT !.pc = "read", !.op = "show_use_product_page",
                                  !.user_id = u, !.product_name = product_name,
                                  !.category = current_product(Db, u, product_name).category,
                                  !.quantity = quantity_used,
                                  !.read = Some([id |-> current_product(Db, u, product_name).id,
                                                 quantity |-> current_product(Db, u, product_name).quantity])]]
    /\ UNCHANGED <<users, inventory, product_usage_history, inventory_seq,
                   history_seq, users_seq, CATEGORIES, user_id, now, horizon, last>>

\* the same script run checks its subtraction and calls
\* update_inventory_quantity
session_use_product_update(s) ==
    /\ flight[s].pc = "read"
    /\ LET c == flight[s]
           r == use_product_after_read(Db, now + 1, c)
       IN /\ (r.result # "rejected" => now < horizon)
          /\ Commit(r.db)
          /\ now' = IF r.result = "rejected" THEN now ELSE now + 1
          /\ flight' = [flight EXCEPT ![s].pc = "done", ![s].result = r.result,
                                      ![s].t = now']
          /\ last' = Call("show_use_product_page", c.user_id, c.product_name,
                          c.category, c.quantity,
                          The(c.read).quantity - c.quantity, NULL, 0, r.result)
    /\ UNCHANGED <<CATEGORIES, user_id, horizon>>

\* A fault does not depend on the arguments of the call it interrupts: the
\* model injects it into one representative call of each kind.
FaultChoice(representative) == IF representative THEN BOOLEAN ELSE {FALSE}

\* the same for a call of several statements: the fault points of
\* add_product and delete_product
FaultPoints(representative) == IF representative THEN 0..2 ELSE {0}

\* the filters of the inventory table: category_filter, low_stock_filter
Filters == {<<"All", FALSE>>, <<"Grocery", FALSE>>, <<"All", TRUE>>}

\* the values typed into one row of the editable table
RowEdits == {[quantity |-> 0, min_stock_level |-> Some(0)],
             [quantity |-> 1, min_stock_level |-> Some(1)],
             [quantity |-> 2, min_stock_level |-> Some(1)]}

\* what is typed into the add/update form for a name that matches
\* (current_quantity 0 stands for the displayed quantity replaced by 0)
MergeInputs(existing) ==
    {[current_quantity |-> existing.quantity, quantity_change |-> c] : c \in QuantityInputs}
    \cup {[current_quantity |-> 0, quantity_change |-> 2]}

InventoryNames(u) == {r.product_name : r \in Range(get_user_inventory(Db, u))}

Owner == IF user_id = NULL THEN 0 ELSE The(user_id)

\* the handlers of app.py
Next ==
    \/ \E username \in Usernames, password \in Passwords :
           show_login_page(username, password)
    \/ show_main_interface_logout
    \/ \E product_name \in InventoryNames(Owner), quantity_used \in UsedInputs :
       \E fault \in FaultChoice(quantity_used = 1) :
           show_use_product_page(product_name, quantity_used, fault)
    \/ \E product_name \in ProductNames, unit \in UnitInputs :
          LET matching == matching_products(Db, Owner, product_name)
          IN IF Len(matching) > 0
             THEN \E m \in MergeInputs(Head(matching)) :
                  \E fault \in FaultChoice(m.quantity_change = 1) :
                      add_product_ui_submit(product_name, Head(matching).category, unit,
                                            m.current_quantity, m.quantity_change, 0,
                                            FALSE, IF fault THEN 1 ELSE 0)
             ELSE \E category \in CategoryInputs, quantity \in UsedInputs :
                  \E uploaded \in FaultChoice(quantity = 1) :
                  \E fault \in FaultChoice(quantity = 1 /\ ~uploaded) :
                      add_product_ui_submit(product_name, category, unit, 0, 0,
                                            quantity, uploaded, IF fault THEN 1 ELSE 0)
    \/ \E response \in PageResponses :
       \E fault \in FaultChoice(response = BaseResponse) :
           display_chatbot_submit(response, IF fault THEN 1 ELSE 0)
    \/ \E f \in Filters :
       \E k \in 0..Len(table_rows(Db, Owner, f[1], f[2])) :
       \E edit \in IF k = 0 THEN {CHOOSE e \in RowEdits : TRUE} ELSE RowEdits :
       \E faultRow \in IF k = 0 THEN 0..Len(table_rows(Db, Owner, f[1], f[2])) ELSE {0} :
           display_inventory_table_update(f[1], f[2], k, edit.quantity,
                                          edit.min_stock_level, faultRow)
    \/ \E f \in Filters, product_to_delete \in ProductNames :
       \E fault \in FaultChoice(f[1] = "All" /\ ~f[2]) :
           display_inventory_table_delete(f[1], f[2], product_to_delete,
                                          IF fault THEN 1 ELSE 0)

\* the quantity, the unit and the optional arguments a direct caller of
\* add_product supplies
AddInputs ==
    {[quantity |-> 1, unit |-> "L", image_path |-> NULL, min_stock_level |-> NULL],
     [quantity |-> -1, unit |-> "L", image_path |-> NULL, min_stock_level |-> NULL],
     [quantity |-> 2, unit |-> "L", image_path |-> NULL, min_stock_level |-> Some(0)],
     [quantity |-> 2, unit |-> "kg", image_path |-> Some(<<"upload", 0>>),
      min_stock_level |-> Some(1)]}

\* the quantity and minimum stock level a direct caller of
\* update_inventory_quantity supplies
UpdateInputs ==
    {[quantity |-> 1, min_stock_level |-> NULL],
     [quantity |-> -1, min_stock_level |-> NULL],
     [quantity |-> 2, min_stock_level |-> Some(0)],
     [quantity |-> 1, min_stock_level |-> Some(1)]}

\* the functions of database.py called with any arguments, by a caller that
\* also logs in and uses products
NextStore ==
    \/ \E u \in OwnerIds, name \in ProductNames, category \in CategoryInputs,
          a \in AddInputs :
       \E fault \in FaultPoints(a.quantity = 1 /\ category = "Grocery"
                                  /\ name = "Milk") :
           call_add_product(u, name, category, a.quantity, a.unit, a.image_path,
                            a.min_stock_level, fault)
    \/ \E u \in OwnerIds, product_name \in ProductNames, a \in UpdateInputs :
       \E fault \in FaultChoice(a.quantity = 1 /\ a.min_stock_level = NULL) :
           call_update_inventory_quantity(u, product_name, a.quantity,
                                          a.min_stock_level, fault)
    \/ \E u \in OwnerIds, product_name \in ProductNames :
       \E fault \in FaultPoints(product_name = "Milk") :
           call_delete_product(u, product_name, fault)
    \/ \E username \in {"guest", "admin"}, password \in {"user123"} :
           call_add_user(username, password)
    \/ \E username \in Usernames, password \in Passwords :
           show_login_page(username, password)
    \/ show_main_interface_logout
    \/ \E product_name \in InventoryNames(Owner), quantity_used \in UsedInputs :
       \E fault \in FaultChoice(quantity_used = 1) :
           show_use_product_page(product_name, quantity_used, fault)

\* the products the table is filled with: three names, one of them in two
\* categories
BulkResponses ==
    {[BaseResponse EXCEPT !.product_name = Some(n), !.category = Some("Grocery")] :
        n \in ProductNames \cup {"Eggs"}}
    \cup {BaseResponse}

\* the values typed into the edited row
BulkEdits == {e \in RowEdits : e.quantity # 1}

\* a session on the assistant's page alone, with every response
NextChat ==
    \/ \E username \in Usernames, password \in Passwords :
           show_login_page(username, password)
    \/ show_main_interface_logout
    \/ \E response \in ChatResponses :
       \E fault \in FaultPoints(response = BaseResponse) :
           display_chatbot_submit(response, fault)

\* one user fills the inventory through the assistant and writes the table
\* back, with any one row edited and the call of any one row failing
NextBulk ==
    \/ \E username \in {"admin"}, password \in {"admin123", "user123"} :
           show_login_page(username, password)
    \/ \E response \in BulkResponses :
           display_chatbot_submit(response, 0)
    \/ \E k \in 0..Len(table_rows(Db, Owner, "All", FALSE)) :
       \E edit \in BulkEdits :
       \E faultRow \in 0..Len(table_rows(Db, Owner, "All", FALSE)) :
           display_inventory_table_update("All", FALSE, k, edit.quantity,
                                          edit.min_stock_level, faultRow)

\* the product the two sessions work on, in either category
RaceNames == {"Milk"}

\* two sessions of one user, each adding and using products
NextRace ==
    \/ \E s \in Sessions, u \in OwnerIds, name \in RaceNames :
       \E category \in CategoryInputs, quantity \in UsedInputs :
           session_add_product_select(s, u, name, category, quantity)
    \/ \E s \in Sessions : session_add_product_commit(s)
    \/ \E s \in Sessions, u \in OwnerIds, product_name \in RaceNames :
       \E quantity_used \in UsedInputs :
           session_use_product_read(s, u, product_name, quantity_used)
    \/ \E s \in Sessions : session_use_product_update(s)

Spec == Init /\ [][Next]_vars

SpecStore == Init /\ [][NextStore]_vars

SpecChat == Init /\ [][NextChat]_vars

InitBulk == InitStore /\ horizon = MaxBulkTime

SpecBulk == InitBulk /\ [][NextBulk]_vars

InitRace == InitStore /\ horizon = MaxRaceTime

SpecRace == InitRace /\ [][NextRace]_vars

\* one user fills the inventory through the assistant, which can put one
\* name into two categories, and uses products
NextUse ==
    \/ \E username \in Usernames, password \in Passwords :
           show_login_page(username, password)
    \/ \E response \in CompleteResponses :
           display_chatbot_submit(response, 0)
    \/ \E product_name \in InventoryNames(Owner), quantity_used \in UsedInputs :
       \E fault \in FaultChoice(quantity_used = 1) :
           show_use_product_page(product_name, quantity_used, fault)

InitUse == InitStore /\ horizon = MaxUseTime

SpecUse == InitUse /\ [][NextUse]_vars

\* add_product called with any arguments, by a caller that also overwrites
\* quantities
NextUpsert ==
    \/ \E u \in OwnerIds, name \in ProductNames, category \in CategoryInputs,
          a \in AddInputs :
       \E fault \in FaultPoints(a.quantity = 1 /\ category = "Grocery"
                                  /\ name = "Milk") :
           call_add_product(u, name, category, a.quantity, a.unit, a.image_path,
                            a.min_stock_level, fault)
    \/ \E u \in OwnerIds, product_name \in ProductNames :
           call_update_inventory_quantity(u, product_name, 1, NULL, FALSE)

InitUpsert == InitStore /\ horizon = MaxUpsertTime

SpecUpsert == InitUpsert /\ [][NextUpsert]_vars

(* analyze_with_openai applied to the replies of the model it calls *)

\* a key the reply's object does not have
Absent == JsonValue("absent", "")

UnitValues ==
    {Str(x) : x \in Range(valid_units) \cup {"KG", "liters", ""}}
    \cup {PyNone, PyInt("2"), Absent}

QuantityValues ==
    {PyInt("2"), PyInt("-1"), HugeInt, PyFloat("2.5"), PyFloat("nan"),
     Str("1"), Str("-1"), Str("nan"), Str("abc"), Str(""),
     PyTrue, PyNone, PyList, Absent}

NameValues == {Str("Milk"), PyNone, Absent}

CategoryValues == {Str("Grocery"), Str("Snacks"), Absent}

NotesValues == {Str("1 L carton"), Absent}

\* the dict json.loads builds from an object with the given members
Dict(members) ==
    [k \in {k \in DOMAIN members : members[k] # Absent} |-> members[k]]

\* the values json.loads returns: objects, and a list, a string and null
Parsed ==
    {[type |-> "dict", items |-> Dict(m)] :
        m \in [product_name : NameValues, category : CategoryValues,
               unit : UnitValues, quantity : QuantityValues, notes : NotesValues]}
    \cup {[type |-> t, items |-> Dict([unit |-> Absent])] :
             t \in {"list", "str", "NoneType"}}

Replies == {NULL} \cup {Some([parsed |-> x]) : x \in {NULL} \cup {Some(v) : v \in Parsed}}

VisionResults == {[labels |-> l] : l \in {<<>>, <<"Milk", "Drink">>}}

\* process_product_image has the labels and is about to call
\* analyze_with_openai, whose request will get the given reply
InitVision ==
    /\ users = init_db.users
    /\ inventory = init_db.inventory
    /\ product_usage_history = init_db.product_usage_history
    /\ inventory_seq = init_db.inventory_seq
    /\ history_seq = init_db.history_seq
    /\ users_seq = init_db.users_seq
    /\ CATEGORIES = InitialCategories
    /\ user_id = NULL
    /\ now = 0
    /\ flight = [s \in Sessions |-> Idle]
    /\ horizon = MaxTime
    /\ \E v \in VisionResults, reply \in Replies :
          last = [NoCall EXCEPT !.op = "process_product_image",
                                !.arg = [vision_results |-> v, reply |-> reply],
                                !.result = NULL]

analyze_with_openai_call ==
    /\ last.op = "process_product_image"
    /\ last' = [last EXCEPT
                   !.op = "analyze_with_openai",
                   !.result = analyze_with_openai(last.arg.vision_results,
                                                  last.arg.reply)]
    /\ UNCHANGED <<users, inventory, product_usage_history, inventory_seq,
                   history_seq, users_seq, CATEGORIES, user_id, now, flight,
                   horizon>>

NextVision == analyze_with_openai_call

SpecVision == InitVision /\ [][NextVision]_vars

----------------------------------------------------------------------------
(* Properties *)

UserIds == {r.id : r \in Range(users)}

IsUse(call) == call.op = "show_use_product_page"
IsDelete(call) == call.op \in {"delete_product", "display_inventory_table_delete"}

HasName(u, name) ==
    \E r \in Range(inventory) : r.user_id = u /\ r.product_name = name

\* C1: a use-product call never makes a non-negative quantity negative, and a
\* call that uses more than the current quantity is rejected and changes no
\* inventory row and no usage event.
C1_UsageKeepsNonNegative ==
    [][IsUse(last') =>
          /\ Len(inventory') = Len(inventory)
          /\ \A i \in DOMAIN inventory :
                inventory[i].quantity >= 0 => inventory'[i].quantity >= 0
          /\ (last'.quantity >
                current_product(Db, last'.user_id, last'.product_name).quantity
              => /\ last'.result = "rejected"
                 /\ inventory' = inventory
                 /\ product_usage_history' = product_usage_history)]_vars

\* a use of more than the stock of a product in stock was rejected
C1_Witness ==
    /\ IsUse(last)
    /\ last.result = "rejected"
    /\ \E r \in Range(inventory) :
          /\ r.user_id = last.user_id
          /\ r.product_name = last.product_name
          /\ r.quantity >= 0
          /\ last.quantity > r.quantity

\* C2: every stored quantity is >= 0, whichever handler wrote it.
C2_QuantityNeverNegative ==
    \A r \in Range(inventory) : r.quantity >= 0

\* C3: two add/update form submissions in a row for the same owner, name and
\* category, with positive quantities q1 and q2 and the displayed current
\* quantity left as stored, leave the item with its earlier quantity + q1 + q2
\* and with two more 'add' usage events.
C3_TwoAddsAccumulate ==
    [][(/\ last.op = "add_product_ui" /\ last'.op = "add_product_ui"
        /\ last.result = "True" /\ last'.result = "True"
        /\ last'.user_id = last.user_id
        /\ last'.product_name = last.product_name
        /\ last'.category = last.category
        /\ last.quantity > 0 /\ last'.quantity > 0
        /\ last.new_quantity = last.pre_quantity + last.quantity
        /\ last'.new_quantity = last'.pre_quantity + last'.quantity)
       => LET items == ItemsOf(Db', last.user_id, last.product_name, last.category)
          IN /\ QuantityOf(Db', last.user_id, last.product_name, last.category)
                  = last.pre_quantity + last.quantity + last'.quantity
             /\ Cardinality(AddEventsOf(Db', {r.id : r \in items}))
                  = last.pre_adds + 2]_vars

\* C4: add_product for a merge key with no item appends exactly one inventory
\* row, with the given quantity and last_used NULL, and exactly one 'add' usage
\* event with that quantity whose product_id is the id of the new row.
C4_InsertCreatesItemAndEvent ==
    [][(/\ last'.op = "add_product" /\ last'.result = "True"
        /\ ItemsOf(Db, last'.user_id, last'.product_name, last'.category) = {})
       => /\ Len(inventory') = Len(inventory) + 1
          /\ SubSeq(inventory', 1, Len(inventory)) = inventory
          /\ Len(product_usage_history') = Len(product_usage_history) + 1
          /\ SubSeq(product_usage_history', 1, Len(product_usage_history))
                = product_usage_history
          /\ LET row == inventory'[Len(inventory')]
                 event == product_usage_history'[Len(product_usage_history')]
             IN /\ row.user_id = last'.user_id
                /\ row.product_name = last'.product_name
                /\ row.category = last'.category
                /\ row.quantity = last'.quantity
                /\ row.last_used = NULL
                /\ \A r \in Range(inventory) : r.id # row.id
                /\ event.operation_type = "add"
                /\ event.quantity_used = last'.quantity
                /\ event.user_id = last'.user_id
                /\ event.product_id = row.id
                /\ \A h \in Range(product_usage_history) : h.id # event.id]_vars

\* add_product has just created a second item, stamped with this call's time
C4_Witness ==
    /\ last.op = "add_product" /\ last.result = "True"
    /\ Len(inventory) >= 2
    /\ LET row == inventory[Len(inventory)]
       IN /\ row.id = inventory_seq
          /\ row.date_added = now
          /\ row.product_name = last.product_name
          /\ row.category = last.category
          /\ row.last_used = NULL
          /\ \E h \in Range(product_usage_history) :
                h.product_id = row.id /\ h.usage_date = now

C6_DeleteLeavesNoTrace ==
    (IsDelete(last) /\ last.result = "True")
    => /\ get_product_usage_history(Db, last.user_id, Some(last.product_name),
                                    DEFAULT_LIMIT) = <<>>
       /\ \A r \in Range(get_user_inventory(Db, last.user_id)) :
             r.product_name # last.product_name

\* a delete succeeded for a product that had been added, while other products
\* and their history remain
C6_Witness ==
    /\ IsDelete(last) /\ last.result = "True"
    /\ history_seq >= 2
    /\ Len(inventory) >= 1 /\ Len(product_usage_history) >= 1

\* C7: every usage event refers to an inventory row that exists.
C7_NoOrphanEvents ==
    \A h \in Range(product_usage_history) :
        \E r \in Range(inventory) : r.id = h.product_id

\* C8: authenticate_user gives None for every pair that is not a row of the
\* users table, a user id for each predefined pair, and for every pair the
\* value it gave on the freshly initialised database.
C8_AuthenticationExact ==
    \A username \in Usernames \cup {"user2"}, password \in Passwords :
        LET id == authenticate_user(Db, username, password)
            stored == \E r \in Range(users) :
                          r.username = username /\ r.password = password
            predefined == \E i \in DOMAIN PREDEFINED_USERS :
                              /\ PREDEFINED_USERS[i].username = username
                              /\ PREDEFINED_USERS[i].password = password
        IN /\ (~stored => id = NULL)
           /\ (predefined => id # NULL /\ id \subseteq UserIds)
           /\ id = authenticate_user(init_db, username, password)

\* a login succeeded after inventory operations and after a user was added
C8_Witness ==
    /\ last.op = "show_login_page" /\ last.result = "ok"
    /\ user_id = Some(1)
    /\ Len(inventory) > 0
    /\ Len(users) > Len(PREDEFINED_USERS)

\* C9: without a fault, delete_product returns True exactly when the owner had
\* an item of that name and False otherwise, and when it returns False no
\* inventory row and no usage event has changed.
C9_DeleteReportsMatch ==
    [][(last'.op = "delete_product" /\ ~last'.fault)
       => /\ last'.result = "True" <=> HasName(last'.user_id, last'.product_name)
          /\ last'.result = "False" <=> ~HasName(last'.user_id, last'.product_name)
          /\ (last'.result = "False"
              => /\ inventory' = inventory
                 /\ product_usage_history' = product_usage_history)]_vars

\* delete_product returned False while the store holds items and events
C9_Witness ==
    /\ last.op = "delete_product" /\ last.result = "False"
    /\ Len(inventory) > 0 /\ Len(product_usage_history) > 0

\* C10: update_inventory_quantity returns False exactly when a fault occurs
\* and then changes nothing; otherwise it returns True, gives every row of
\* that owner and product name the quantity as given and last_used the time
\* of the call, sets min_stock_level only when one is supplied, and changes
\* nothing else (so nothing at all when no row matches).
C10_UpdateOverwritesUnchecked ==
    [][last'.op = "update_inventory_quantity"
       => /\ last'.result = "False" <=> last'.fault
          /\ last'.result = "True" <=> ~last'.fault
          /\ product_usage_history' = product_usage_history
          /\ users' = users
          /\ (last'.fault => inventory' = inventory)
          /\ (~last'.fault =>
                /\ Len(inventory') = Len(inventory)
                /\ \A i \in DOMAIN inventory :
                      IF /\ inventory[i].user_id = last'.user_id
                         /\ inventory[i].product_name = last'.product_name
                      THEN inventory'[i] =
                             [inventory[i] EXCEPT
                                 !.quantity = last'.quantity,
                                 !.last_used = Some(now'),
                                 !.min_stock_level =
                                     IF last'.min_stock_level = NULL THEN @
                                     ELSE last'.min_stock_level]
                      ELSE inventory'[i] = inventory[i])]_vars

\* a negative quantity was stored by update_inventory_quantity
C10_Witness ==
    /\ last.op = "update_inventory_quantity" /\ last.result = "True"
    /\ last.quantity < 0
    /\ \E r \in Range(inventory) :
          /\ r.user_id = last.user_id /\ r.product_name = last.product_name
          /\ r.quantity = last.quantity /\ r.last_used = Some(now)

\* the limits usageHistory is called with: none, fewer than the events there
\* are, and the default
HistoryLimits == {0, 1, 2, DEFAULT_LIMIT}

\* the events usageHistory(u, product_name) chooses from: those owned by u
\* and, when a product name is given, whose parent item has that name
Qualifies(h, u, product_name) ==
    /\ h.user_id = u
    /\ (product_name # NULL =>
           \E i \in Range(inventory) :
               i.id = h.product_id /\ i.product_name = The(product_name))

\* C11: usageHistory(owner, productName?, limit) returns at most limit
\* events, each a qualifying event of the ledger (owned by the owner and,
\* when a product name is given, with a parent item of that name), newest
\* first, and no qualifying event that is left out is more recent than a
\* returned one or left out while fewer than limit events are returned.
C11_HistoryMostRecent ==
    \A u \in UserIds, limit \in HistoryLimits :
    \A product_name \in {NULL} \cup {Some(n) : n \in ProductNames} :
        LET out == get_product_usage_history(Db, u, product_name, limit)
        IN /\ Len(out) <= limit
           /\ \A k \in DOMAIN out :
                 /\ out[k] \in Range(product_usage_history)
                 /\ Qualifies(out[k], u, product_name)
           /\ \A j, k \in DOMAIN out :
                 j < k => /\ out[j].usage_date >= out[k].usage_date
                          /\ out[j].id # out[k].id
           /\ \A h \in Range(product_usage_history) :
                 (Qualifies(h, u, product_name) /\ h \notin Range(out))
                 => /\ Len(out) = limit
                    /\ \A k \in DOMAIN out : out[k].usage_date >= h.usage_date

\* the call of a step went through add_product to its commit
Upserts(call) ==
    \/ call.op \in {"add_product", "display_chatbot"} /\ call.result = "True"
    \/ /\ call.op = "add_product_ui" /\ call.result = "True"
       /\ Len(matching_products(Db, call.user_id, call.product_name)) = 0

\* C12: in every step the ledger of usage events changes in one of two ways
\* only: a call that goes through add_product appends exactly one event, of
\* type 'add', and a delete removes events of item rows it removed, leaving
\* the others as they were and in order; every other step (use, update of a
\* quantity, bulk edit, login, logout) leaves the ledger as it was; no event
\* has a type other than 'add'.
C12_LedgerFrame ==
    [][LET removed == {r.id : r \in Range(inventory)}
                      \ {r.id : r \in Range(inventory')}
       IN /\ Upserts(last')
             => \E e \in Range(product_usage_history') :
                   /\ product_usage_history' = Append(product_usage_history, e)
                   /\ e.operation_type = "add"
                   /\ \A h \in Range(product_usage_history) : h.id # e.id
          /\ IsDelete(last')
             => /\ product_usage_history' =
                       SelectSeq(product_usage_history, LAMBDA h :
                           h \in Range(product_usage_history'))
                /\ \A h \in Range(product_usage_history) :
                       h \notin Range(product_usage_history')
                       => h.product_id \in removed
          /\ (~Upserts(last') /\ ~IsDelete(last'))
             => product_usage_history' = product_usage_history
          /\ \A h \in Range(product_usage_history') : h.operation_type = "add"
      ]_vars

\* a use of a product changed its quantity and the ledger still holds just
\* the 'add' event the product was created with
C12_Witness ==
    /\ IsUse(last) /\ last.result = "True"
    /\ last.new_quantity # last.pre_quantity
    /\ Len(product_usage_history) = 1
    /\ \A h \in Range(product_usage_history) : h.operation_type = "add"

C14_MergeIgnoringCase ==
    [][(last'.op = "add_product_ui" /\ ~last'.fault)
       => LET matching == matching_products(Db, last'.user_id, last'.product_name)
          IN IF Len(matching) > 0
             THEN /\ Len(inventory') = Len(inventory)
                  /\ \A i \in DOMAIN inventory :
                        inventory[i].id = Head(matching).id
                        => inventory'[i].quantity = last'.new_quantity
             ELSE /\ Len(inventory') = Len(inventory) + 1
                  /\ LET new == inventory'[Len(inventory')]
                     IN /\ new.user_id = last'.user_id
                        /\ new.product_name = last'.product_name
                        /\ new.category = last'.category
                        /\ new.quantity = last'.new_quantity
                  /\ Len(product_usage_history') = Len(product_usage_history) + 1
      ]_vars

C16_ResponseAllOrNothing ==
    [][last'.op = "display_chatbot"
       => LET response == last'.arg
          IN /\ ~ResponseComplete(response)
                => UNCHANGED <<inventory, product_usage_history, inventory_seq,
                               history_seq, CATEGORIES>>
             /\ (inventory' # inventory
                 \/ product_usage_history' # product_usage_history)
                => /\ ResponseComplete(response)
                   /\ Len(inventory') <= Len(inventory) + 1
                   /\ \E e \in Range(product_usage_history') :
                         /\ product_usage_history' = Append(product_usage_history, e)
                         /\ e.operation_type = "add"
                         /\ e.user_id = last'.user_id
                         /\ e.quantity_used = float(The(response.quantity))
                         /\ \E i \in Range(inventory') :
                               /\ i.id = e.product_id
                               /\ i.user_id = last'.user_id
                               /\ i.product_name = The(response.product_name)
                               /\ i.category = The(response.category)
      ]_vars

\* the assistant answered with a product name and a category that is new to
\* the category list, but without a quantity: nothing was done
C16_Witness ==
    /\ last.op = "display_chatbot" /\ last.result = "none"
    /\ last.arg.product_name # NULL /\ last.arg.category # NULL
    /\ last.arg.quantity = NULL
    /\ The(last.arg.category) \notin Range(CATEGORIES)
    /\ Len(inventory) >= 1

\* C17: a call of add_product or delete_product that raises, before its
\* first write or between its write of the item and its write of the usage
\* events, leaves every table and every id sequence as before the call; and
\* after any call of either, the inventory changed if and only if the usage
\* history changed.
C17_CallsAreAtomic ==
    [][last'.op \in {"add_product", "delete_product"}
       => /\ last'.fault
             => /\ last'.result = "raise"
                /\ UNCHANGED <<users, inventory, product_usage_history,
                               inventory_seq, history_seq, users_seq>>
          /\ (inventory' # inventory)
             <=> (product_usage_history' # product_usage_history)
      ]_vars

\* add_product raised after its write of the item, for a product that
\* exists: the item and the ledger are as before the call
C17_Witness ==
    /\ last.op = "add_product" /\ last.fault_at = 2 /\ last.result = "raise"
    /\ QuantityOf(Db, last.user_id, last.product_name, last.category)
       = last.pre_quantity
    /\ last.pre_adds >= 1
    /\ Cardinality(AddEventsOf(Db, {r.id : r \in ItemsOf(Db, last.user_id,
           last.product_name, last.category)})) = last.pre_adds

\* C18: when a session that read quantity q of a product submits a use of
\* n, then, whatever the other session wrote since that read, the use is
\* rejected and changes nothing if q - n < 0, and otherwise it is accepted
\* and the stored quantity of the product becomes q - n, which is not
\* negative: the quantity stored after the last write is computed from the
\* last writer's own read.
C18_LastWriterWins ==
    [][\A s \in Sessions :
          (flight[s].pc = "read" /\ flight'[s].pc = "done")
          => LET c == flight[s]
                 new_quantity == The(c.read).quantity - c.quantity
             IN IF new_quantity < 0
                THEN /\ flight'[s].result = "rejected"
                     /\ inventory' = inventory
                ELSE /\ flight'[s].result = "True"
                     /\ \A r \in Range(inventory') :
                           (r.user_id = c.user_id
                            /\ r.product_name = c.product_name)
                           => r.quantity = new_quantity /\ r.quantity >= 0
      ]_vars

\* both sessions read the same quantity of a product, each used some of it
\* and was accepted, together more than there was; the stored quantity is
\* what the later writer computed and is not negative
C18_Witness ==
    \E s1, s2 \in Sessions :
        /\ flight[s1].pc = "done" /\ flight[s2].pc = "done"
        /\ flight[s1].op = "show_use_product_page"
        /\ flight[s2].op = "show_use_product_page"
        /\ flight[s1].result = "True" /\ flight[s2].result = "True"
        /\ flight[s1].product_name = flight[s2].product_name
        /\ flight[s1].t < flight[s2].t
        /\ The(flight[s1].read).quantity = The(flight[s2].read).quantity
        /\ flight[s1].quantity + flight[s2].quantity > The(flight[s1].read).quantity
        /\ \A r \in Range(inventory) :
              r.product_name = flight[s2].product_name
              => /\ r.quantity = The(flight[s2].read).quantity - flight[s2].quantity
                 /\ r.quantity >= 0

\* the two sessions have each completed one add_product for the same
\* existing item, s2 writing last, and no other call began since the first
\* of the two began
TwoAdds(s1, s2) ==
    /\ s1 # s2
    /\ flight[s1].pc = "done" /\ flight[s2].pc = "done"
    /\ flight[s1].op = "add_product" /\ flight[s2].op = "add_product"
    /\ flight[s1].user_id = flight[s2].user_id
    /\ flight[s1].product_name = flight[s2].product_name
    /\ flight[s1].category = flight[s2].category
    /\ flight[s1].read # NULL /\ flight[s2].read # NULL
    /\ flight[s1].event < flight[s2].event
    /\ now \in {flight[s1].t, flight[s2].t}
    /\ flight[s1].t - flight[s2].t \in {-1, 1}

\* the quantity of the item before the two calls: what the first of them read
OriginalQuantity(s1, s2) ==
    IF The(flight[s1].read).quantity <= The(flight[s2].read).quantity
    THEN The(flight[s1].read).quantity
    ELSE The(flight[s2].read).quantity

\* both 'add' events of the two calls are in the ledger, for the item
BothAddEvents(s1, s2) ==
    \A s \in {s1, s2} :
        \E e \in Range(product_usage_history) :
            /\ e.id = flight[s].event
            /\ e.product_id = The(flight[s].read).id
            /\ e.quantity_used = flight[s].quantity
            /\ e.operation_type = "add"

\* C19 as stated: after two add_product calls of two sessions for the same
\* existing item, their reads and writes interleaved in any order, the
\* quantity of the item is the original quantity + q1 + q2 and both 'add'
\* events exist.
C19_NoLostIncrement ==
    \A s1, s2 \in Sessions :
        TwoAdds(s1, s2)
        => /\ \A r \in Range(inventory) :
                 r.id = The(flight[s2].read).id
                 => r.quantity = OriginalQuantity(s1, s2)
                                 + flight[s1].quantity + flight[s2].quantity
           /\ BothAddEvents(s1, s2)

\* C19, amended: after two such calls the quantity of the item is what the
\* call that wrote last read plus that call's own quantity, and both 'add'
\* events exist.
C19_LastAddWins ==
    \A s1, s2 \in Sessions :
        TwoAdds(s1, s2)
        => /\ \A r \in Range(inventory) :
                 r.id = The(flight[s2].read).id
                 => r.quantity = The(flight[s2].read).quantity + flight[s2].quantity
           /\ BothAddEvents(s1, s2)

\* both calls read the item before either wrote: the ledger has both
\* events, the quantity holds only the increment of the call that wrote last
C19_Witness ==
    \E s1, s2 \in Sessions :
        /\ TwoAdds(s1, s2)
        /\ The(flight[s1].read).quantity = The(flight[s2].read).quantity
        /\ BothAddEvents(s1, s2)
        /\ \E r \in Range(inventory) :
              /\ r.id = The(flight[s2].read).id
              /\ r.quantity = OriginalQuantity(s1, s2) + flight[s2].quantity
              /\ r.quantity < OriginalQuantity(s1, s2)
                              + flight[s1].quantity + flight[s2].quantity

\* C20: no two inventory rows have the same owner, product name and
\* category.
C20_OneItemPerKey ==
    \A i, j \in DOMAIN inventory :
        (/\ inventory[i].user_id = inventory[j].user_id
         /\ inventory[i].product_name = inventory[j].product_name
         /\ inventory[i].category = inventory[j].category)
        => i = j

\* C21: a successful use of amount n of the selected product changes
\* exactly one inventory row: the selected row's quantity becomes its
\* previous quantity minus n and its last_used is the time of the use, and
\* every other row of the owner, a row of the same name in another
\* category included, keeps its quantity, last_used and min_stock_level.
C21_UsageChangesOneItem ==
    [][(IsUse(last') /\ last'.result = "True")
       => /\ DOMAIN inventory' = DOMAIN inventory
          /\ \E k \in DOMAIN inventory :
                /\ inventory[k] = current_product(Db, last'.user_id,
                                                  last'.product_name)
                /\ inventory'[k].quantity = inventory[k].quantity - last'.quantity
                /\ inventory'[k].last_used = Some(now')
                /\ \A j \in DOMAIN inventory \ {k} :
                      inventory[j].user_id = last'.user_id
                      => /\ inventory'[j].quantity = inventory[j].quantity
                         /\ inventory'[j].last_used = inventory[j].last_used
                         /\ inventory'[j].min_stock_level
                               = inventory[j].min_stock_level
      ]_vars

\* C22: when add_product finds an item of the owner with the given name and
\* category, the call changes that item's quantity (to the previous
\* quantity plus the argument) and date_added (to the time of the call)
\* and nothing else: the item keeps its id, unit, image_path,
\* min_stock_level and last_used whatever unit, image_path and
\* min_stock_level the call was given, the number of items stays, and every
\* other item is unchanged.
C22_MergeChangesQuantityAndDate ==
    [][(/\ last'.op = "add_product" /\ last'.result = "True"
        /\ select_existing(Db, last'.user_id, last'.product_name,
                           last'.category) # NULL)
       => LET existing == The(select_existing(Db, last'.user_id,
                                  last'.product_name, last'.category))
          IN /\ DOMAIN inventory' = DOMAIN inventory
             /\ \A i \in DOMAIN inventory :
                   IF inventory[i].id = existing.id
                   THEN inventory'[i] =
                            [inventory[i] EXCEPT
                                !.quantity = inventory[i].quantity + last'.quantity,
                                !.date_added = now']
                   ELSE inventory'[i] = inventory[i]
      ]_vars

\* a call with another unit, image and minimum stock level than the stored
\* ones was merged into an item, beside another item of the owner
C22_Witness ==
    /\ last.op = "add_product" /\ last.result = "True"
    /\ \E i, j \in DOMAIN inventory :
          /\ i # j
          /\ inventory[j].user_id = last.user_id
          /\ inventory[i].user_id = last.user_id
          /\ inventory[i].product_name = last.product_name
          /\ inventory[i].category = last.category
          /\ inventory[i].date_added = now
          /\ inventory[i].quantity = last.pre_quantity + last.quantity
          /\ last.pre_adds >= 1
          /\ inventory[i].unit # last.arg.unit
          /\ inventory[i].image_path # last.arg.image_path
          /\ inventory[i].min_stock_level # last.min_stock_level

\* the values float() converts
Convertible(v) ==
    \/ v.type \in {"int", "float", "bool"}
    \/ v.type = "str" /\ v.repr \in {"1", "-1", "nan"}

\* the reply analyze_with_openai was given was parsed by json.loads and a
\* suggestion was returned
Suggested ==
    /\ last.op = "analyze_with_openai"
    /\ last.arg.reply # NULL
    /\ The(last.arg.reply).parsed # NULL
    /\ last.result # NULL

\* C23: a suggestion analyze_with_openai returns for a reply that json.loads
\* parsed has a unit that is one of the strings kg, g, L, ml, pcs, box,
\* pack (the unit of the reply if it is one of them, else 'pcs') and a
\* quantity that is a float (1.0 when the reply's value is one float()
\* does not convert); product_name, category and notes are the reply's,
\* present with the same value or absent as in the reply.
C23_SuggestionNormalised ==
    Suggested
    => LET given == The(The(last.arg.reply).parsed).items
           suggestion == The(last.result)
       IN /\ {"unit", "quantity"} \subseteq DOMAIN suggestion
          /\ {"unit", "quantity"} \subseteq DOMAIN given
          /\ suggestion["unit"].type = "str"
          /\ suggestion["unit"].repr \in {"kg", "g", "L", "ml", "pcs", "box", "pack"}
          /\ suggestion["unit"] =
                IF given["unit"] \in {Str(x) : x \in {"kg", "g", "L", "ml", "pcs",
                                                      "box", "pack"}}
                THEN given["unit"] ELSE Str("pcs")
          /\ suggestion["quantity"].type = "float"
          /\ (~Convertible(given["quantity"])
                => suggestion["quantity"] = PyFloat("1.0"))
          /\ (given["quantity"].type = "float"
                => suggestion["quantity"] = given["quantity"])
          /\ \A k \in {"product_name", "category", "notes"} :
                /\ k \in DOMAIN suggestion <=> k \in DOMAIN given
                /\ k \in DOMAIN given => suggestion[k] = given[k]

\* a reply with a unit outside the list and a quantity that is no number
\* gave a suggestion with 'pcs' and 1.0 and the reply's name, category and
\* notes
C23_Witness ==
    /\ Suggested
    /\ LET given == The(The(last.arg.reply).parsed).items
           suggestion == The(last.result)
       IN /\ given["unit"] = Str("liters")
          /\ given["quantity"] = Str("abc")
          /\ DOMAIN given = {"product_name", "category", "unit", "quantity", "notes"}
          /\ suggestion = [given EXCEPT !["unit"] = Str("pcs"),
                                        !["quantity"] = PyFloat("1.0")]
          /\ suggestion["product_name"] = Str("Milk")
          /\ suggestion["category"] = Str("Snacks")
====
